---- MODULE Spec2Model ----
(***************************************************************************)
(* Model of CouchDbNanoAdapter (src/src/index.js): the adapter object, the *)
(* CouchDB server it talks to through the nano driver, and the promise     *)
(* chains of its operations.                                               *)
(*                                                                         *)
(* JavaScript values are records tagged by `kind`; objects carry a         *)
(* function from property names to values.  Strings that the code takes    *)
(* apart (the URI) are sequences of tokens, so that String.replace and     *)
(* template concatenation are computed, not assumed.                       *)
(***************************************************************************)
EXTENDS Integers, Sequences, FiniteSets, TLC

(* ------------------------------------------------------------------ *)
(* Bounds of the model                                                 *)
(* ------------------------------------------------------------------ *)
MaxIds == 2        \* document identifiers the server can hold
MaxRev == 2        \* highest revision a document reaches
MaxInFlight == 1   \* connect() calls whose promise is still pending
MaxBulk == 2       \* documents in one insertMany

(* ------------------------------------------------------------------ *)
(* JavaScript values                                                   *)
(* ------------------------------------------------------------------ *)
Undefined == [kind |-> "undefined"]
Null == [kind |-> "null"]
Num(n) == [kind |-> "number", v |-> n]
Str(s) == [kind |-> "string", v |-> s]
Bool(b) == [kind |-> "boolean", v |-> b]
Arr(s) == [kind |-> "array", v |-> s]
Obj(f) == [kind |-> "object", v |-> f]
\* a string kept as its tokens (URIs, collection names)
Text(toks) == [kind |-> "string", toks |-> toks]
\* a revision marker: a string to JavaScript, a counter to the server
Rev(n) == [kind |-> "string", rev |-> n]
\* the object literal {}
EmptyObj == << >>

\* JavaScript's typeof
TypeOf(x) ==
    IF x.kind \in {"null", "array", "object"} THEN "object" ELSE x.kind

\* JavaScript's ToBoolean on the values the adapter tests
Truthy(x) ==
    CASE x.kind \in {"undefined", "null"} -> FALSE
      [] x.kind = "string" /\ "toks" \in DOMAIN x -> x.toks # << >>
      [] x.kind = "string" /\ "v" \in DOMAIN x -> x.v # ""
      [] x.kind = "boolean" -> x.v
      [] x.kind = "number" -> x.v # 0
      [] OTHER -> TRUE

\* a || b
Or(a, b) == IF Truthy(a) THEN a ELSE b

\* String.prototype.replace(pattern, replacement): the first occurrence only
RECURSIVE ReplaceToks(_, _, _)
ReplaceToks(toks, pat, rep) ==
    IF toks = << >> THEN << >>
    ELSE IF Head(toks) = pat THEN <<rep>> \o Tail(toks)
    ELSE <<Head(toks)>> \o ReplaceToks(Tail(toks), pat, rep)

Replace(s, pat, rep) == Text(ReplaceToks(s.toks, pat, rep))

\* String(x) as a template literal does it, for the values a schema holds
ToToks(x) == IF x.kind = "undefined" THEN <<"undefined">> ELSE x.toks

\* Object.assign({}, a, b) on property maps
Assign(a, b) ==
    [k \in (DOMAIN a) \cup (DOMAIN b) |-> IF k \in DOMAIN b THEN b[k] ELSE a[k]]

\* Object.assign skips undefined and null sources
Props(x) == IF x.kind = "object" THEN x.v ELSE EmptyObj

(* ------------------------------------------------------------------ *)
(* The adapter object and the server                                   *)
(* ------------------------------------------------------------------ *)
VARIABLES
    uri,       \* this.uri
    opts,      \* this.opts
    db,        \* this.db: Null or the handle of a collection
    service,   \* this.service: Undefined until init
    server,    \* the CouchDB server: existing collection |-> (id |-> document)
    conns,     \* connect() calls whose promise is still pending
    ev         \* the step just taken: operation, outcome, driver calls made

vars == <<uri, opts, db, service, server, conns, ev>>

\* URIs and option bundles an adapter is constructed with
Uris ==
    { Undefined,
      Text(<< >>),
      Text(<<"couchdb://", "db.example:5984">>) }

OptsBundles == { Undefined, Obj([url |-> Text(<<"http://", "opts.example:5984">>)]) }

\* service schemas handed to init
Schemas ==
    { [name |-> Text(<<"store">>), collection |-> Text(<<"posts">>)],
      [name |-> Text(<<"store">>), collection |-> Undefined] }

DefaultUrl == Text(<<"http://", "localhost:5984">>)

\* this.url: a property the class never assigns
url == Undefined

\* errors
MissingCollection == [name |-> "Error", message |-> "Missing collection definition in schema of service!"]
TypeError == [name |-> "TypeError"]
ReferenceError == [name |-> "ReferenceError"]
HttpError(code) == [name |-> "Error", statusCode |-> code]

\* what a driver call settles to: fulfilled with a value, or rejected with an error
Ok(x) == [ok |-> TRUE, val |-> x]
Err(e) == [ok |-> FALSE, val |-> e]

\* constructor(uri, opts)
Init ==
    /\ uri \in Uris
    /\ opts \in OptsBundles
    /\ db = Null
    /\ service = Undefined
    /\ server = << >>
    /\ conns = << >>
    /\ ev = [op |-> "constructor"]

\* init(broker, service): the field is assigned before the check throws
init(schema) ==
    /\ service' = [schema |-> schema]
    /\ ev' = IF ~Truthy(schema.collection)
               THEN [op |-> "init", status |-> "thrown", error |-> MissingCollection]
               ELSE [op |-> "init", status |-> "returned"]
    /\ UNCHANGED <<uri, opts, db, server, conns>>

\* the url option of line 53:
\*   this.url ? this.uri.replace('couchdb://', 'http://') : '' || 'http://localhost:5984'
connectUrl ==
    IF Truthy(url)
      THEN Replace(uri, "couchdb://", "http://")
      ELSE Or(Text(<< >>), DefaultUrl)

\* Object.assign({}, this.opts, {url: ...})
connectOpts == Assign(Props(opts), [url |-> connectUrl])

\* `${this.service.schema.name}-${this.service.schema.collection}`
dbName ==
    Text(ToToks(service.schema.name) \o <<"-">> \o ToToks(service.schema.collection))

\* a connect that stores no handle when its promise resolves
Use_None(name) == Null

\* nano.db.use(dbName): a handle scoped to one collection
Use(name) == [kind |-> "object", db |-> name]

\* a .catch that rethrows every error, 404 included
connectCatch_Rethrow(e) == "throw"

\* the .catch of connect: what a failed lookup leads to
connectCatch(e) ==
    IF "statusCode" \in DOMAIN e /\ e.statusCode = 404 THEN "create" ELSE "throw"

\* responses the driver can give to nano.db.get(name)
GetResponses(name) ==
    (IF name \in DOMAIN server THEN {Ok(Null)} ELSE {Err(HttpError(404))})
        \cup {Err(HttpError(500))}

\* responses the driver can give to nano.db.create(name)
CreateResponses(name) ==
    (IF name \in DOMAIN server THEN {Err(HttpError(412))} ELSE {Ok(Null)})
        \cup {Err(HttpError(500))}

Failed(r) == ~r.ok

Remove(s, i) == [j \in 1..(Len(s) - 1) |-> IF j < i THEN s[j] ELSE s[j + 1]]

\* connect(), up to the lookup request it sends
connect ==
    /\ Len(conns) < MaxInFlight
    /\ IF service = Undefined
         THEN /\ ev' = [op |-> "connect", status |-> "thrown", error |-> TypeError]
              /\ UNCHANGED conns
         ELSE /\ conns' = Append(conns,
                    [pc |-> "get", opts |-> connectOpts, dbName |-> dbName,
                     schema |-> service.schema, uri |-> uri,
                     calls |-> <<[call |-> "db.get", name |-> dbName]>>])
              /\ ev' = [op |-> "connect", status |-> "called", conn |-> conns'[Len(conns')]]
    /\ UNCHANGED <<uri, opts, db, service, server>>

\* the lookup answers: .catch creates on 404 and rethrows otherwise, .then stores
\* the handle; `prev` of a resolved event is the operation that acted just before
connectGet(i, r) ==
    LET c == conns[i] IN
    /\ c.pc = "get"
    /\ r \in GetResponses(c.dbName)
    /\ IF ~Failed(r)
         THEN /\ db' = Use(c.dbName)
              /\ conns' = Remove(conns, i)
              /\ ev' = [op |-> "connect", status |-> "resolved", lookup |-> r, conn |-> c,
                        prev |-> ev.op]
         ELSE IF connectCatch(r.val) = "create"
         THEN /\ conns' = [conns EXCEPT ![i] =
                    [c EXCEPT !.pc = "create",
                              !.calls = Append(@, [call |-> "db.create", name |-> c.dbName])]]
              /\ ev' = [op |-> "connect", status |-> "pending", lookup |-> r,
                        conn |-> conns'[i]]
              /\ UNCHANGED db
         ELSE /\ conns' = Remove(conns, i)
              /\ ev' = [op |-> "connect", status |-> "rejected", error |-> r.val,
                        lookup |-> r, conn |-> c]
              /\ UNCHANGED db
    /\ UNCHANGED <<uri, opts, service, server>>

\* the create request answers
connectCreate(i, r) ==
    LET c == conns[i] IN
    /\ c.pc = "create"
    /\ r \in CreateResponses(c.dbName)
    /\ conns' = Remove(conns, i)
    /\ IF ~Failed(r)
         THEN /\ server' = (c.dbName :> << >>) @@ server
              /\ db' = Use(c.dbName)
              /\ ev' = [op |-> "connect", status |-> "resolved",
                        lookup |-> Err(HttpError(404)), conn |-> c, prev |-> ev.op]
         ELSE /\ ev' = [op |-> "connect", status |-> "rejected", error |-> r.val,
                        lookup |-> Err(HttpError(404)), conn |-> c]
              /\ UNCHANGED <<db, server>>
    /\ UNCHANGED <<uri, opts, service>>

\* a disconnect that leaves the handle in place
disconnectDb_Keep == db

\* disconnect(): the value this.db is set to
disconnectDb == Null

disconnect ==
    /\ db' = disconnectDb
    /\ ev' = [op |-> "disconnect", status |-> "resolved", before |-> db]
    /\ UNCHANGED <<uri, opts, service, server, conns>>

Lifecycle ==
    \/ \E schema \in Schemas : init(schema)
    \/ connect
    \/ \E i \in DOMAIN conns : \E r \in GetResponses(conns[i].dbName) : connectGet(i, r)
    \/ \E i \in DOMAIN conns : \E r \in CreateResponses(conns[i].dbName) : connectCreate(i, r)
    \/ disconnect

(* ------------------------------------------------------------------ *)
(* Documents and the driver's document calls                           *)
(* ------------------------------------------------------------------ *)
\* identifiers in the order the server lists documents
IdSeq == <<"id1", "id2", "id3", "id4">>
Ids == {IdSeq[i] : i \in 1..MaxIds}

\* o[k], undefined when o has no such property
Get(o, k) == IF k \in DOMAIN o THEN o[k] ELSE Undefined

\* the documents of the collection the handle is scoped to
Docs == server[db.db]

\* a transport failure can end any driver call
Transport == HttpError(500)

\* db.get(id): the stored document, or not-found
DrvGet(docs, id) ==
    IF id.kind = "string" /\ "v" \in DOMAIN id /\ id.v \in DOMAIN docs
      THEN Ok(Obj(docs[id.v]))
      ELSE Err(HttpError(404))

\* the identifier a write of doc goes to: its own _id, else one the server assigns
WriteId(doc, fresh) == IF "_id" \in DOMAIN doc THEN doc["_id"].v ELSE fresh

\* the revision a write of doc is accepted with; 0 when it conflicts
WriteRev(docs, doc, id) ==
    IF id \in DOMAIN docs
      THEN IF Get(doc, "_rev") = docs[id]["_rev"] THEN docs[id]["_rev"].rev + 1 ELSE 0
      ELSE IF "_rev" \in DOMAIN doc THEN 0 ELSE 1

Stored(doc, id, rev) == ("_id" :> Str(id)) @@ ("_rev" :> Rev(rev)) @@ doc

Ack(id, rev) == Obj([ok |-> Bool(TRUE), id |-> Str(id), rev |-> Rev(rev)])

\* db.insert(doc): stores the document under a new revision and acknowledges,
\* or answers conflict; [ok, val, docs]
DrvInsert(docs, doc, fresh) ==
    LET id == WriteId(doc, fresh)
        rev == WriteRev(docs, doc, id)
    IN  IF rev = 0
          THEN [ok |-> FALSE, val |-> HttpError(409), docs |-> docs]
          ELSE [ok |-> TRUE, val |-> Ack(id, rev),
                docs |-> (id :> Stored(doc, id, rev)) @@ docs]

\* db.bulk(list): writes the documents one after the other and answers one
\* acknowledgement (or conflict row) per document, in order; [ok, val, docs].
\* The adapter hands it the bare array of documents, which is taken here as the
\* list to write.
RECURSIVE DrvBulkRows(_, _, _)
DrvBulkRows(docs, list, fresh) ==
    IF list = << >> THEN [rows |-> << >>, docs |-> docs]
    ELSE LET doc == Head(list).v
             mine == IF "_id" \in DOMAIN doc THEN fresh ELSE Tail(fresh)
             w == DrvInsert(docs, doc, IF fresh = << >> THEN "" ELSE Head(fresh))
             row == IF w.ok THEN w.val
                    ELSE Obj([id |-> Str(WriteId(doc, "")), error |-> Str("conflict")])
             rest == DrvBulkRows(w.docs, Tail(list), mine)
         IN  [rows |-> <<row>> \o rest.rows, docs |-> rest.docs]

DrvBulk(docs, list, fresh) ==
    LET b == DrvBulkRows(docs, list, fresh)
    IN  [ok |-> TRUE, val |-> Arr(b.rows), docs |-> b.docs]

\* db.destroy(docName, rev): deletes the document named docName when rev is its
\* current revision; [ok, val, docs]
DrvDestroy(docs, docName, rev) ==
    IF ~(docName.kind = "string" /\ "v" \in DOMAIN docName /\ docName.v \in DOMAIN docs)
      THEN [ok |-> FALSE, val |-> HttpError(404), docs |-> docs]
    ELSE IF rev # docs[docName.v]["_rev"]
      THEN [ok |-> FALSE, val |-> HttpError(409), docs |-> docs]
    ELSE [ok |-> TRUE, val |-> Ack(docName.v, rev.rev + 1),
          docs |-> [k \in (DOMAIN docs) \ {docName.v} |-> docs[k]]]

\* one condition of a selector against a document's field: an operator object
\* is applied, any other value stands for equality
CondHolds(doc, k, c) ==
    IF c.kind = "object"
      THEN \A o \in DOMAIN c.v :
             CASE o = "$eq" -> k \in DOMAIN doc /\ doc[k] = c.v[o]
               [] o = "$gt" -> /\ k \in DOMAIN doc
                               /\ doc[k].kind = "number" /\ c.v[o].kind = "number"
                               /\ doc[k].v > c.v[o].v
               [] OTHER -> FALSE
      ELSE k \in DOMAIN doc /\ doc[k] = c

Matches(doc, selector) == \A k \in DOMAIN selector : CondHolds(doc, k, selector[k])

RECURSIVE MatchFrom(_, _, _)
MatchFrom(docs, selector, i) ==
    IF i > Len(IdSeq) THEN << >>
    ELSE (IF IdSeq[i] \in DOMAIN docs /\ Matches(docs[IdSeq[i]], selector)
            THEN <<Obj(docs[IdSeq[i]])>> ELSE << >>)
         \o MatchFrom(docs, selector, i + 1)

Skip(s, n) == IF n.kind = "number" THEN SubSeq(s, n.v + 1, Len(s)) ELSE s
Limit(s, n) == IF n.kind = "number" /\ n.v < Len(s) THEN SubSeq(s, 1, n.v) ELSE s

\* db.find(query): the matching documents in identifier order, after skip and limit
DrvFind(docs, q) ==
    Ok(Obj([docs |-> Arr(Limit(Skip(MatchFrom(docs, q.selector, 1), q.skip), q.limit))]))

\* db.fetch({keys}): one row per key, an error row for a key that names no document
DrvFetch(docs, keys) ==
    Ok(Obj([rows |-> Arr([i \in DOMAIN keys.v |->
        IF keys.v[i].kind = "string" /\ keys.v[i].v \in DOMAIN docs
          THEN Obj([key |-> keys.v[i], doc |-> Obj(docs[keys.v[i].v])])
          ELSE Obj([key |-> keys.v[i], error |-> Str("not_found")])])]))

(* ------------------------------------------------------------------ *)
(* The adapter's document operations, as their promise chains           *)
(* Each gives [status, value, docs, calls]: how the promise settles,    *)
(* the documents afterwards and the driver calls made.  f[i] tells      *)
(* whether the i-th driver call ends in a transport failure.            *)
(* ------------------------------------------------------------------ *)
\* a driver call with its arguments and what it settled to
Call(name, args, r) == [call |-> name, args |-> args, result |-> [ok |-> r.ok, val |-> r.val]]
Settled(status, value, docs, calls) ==
    [status |-> status, value |-> value, docs |-> docs, calls |-> calls]

\* a write that fails in transport leaves the documents as they were
Lost(docs) == [ok |-> FALSE, val |-> Transport, docs |-> docs]

\* const {selector = filters, ...} = filters
findSelector(filters) ==
    IF Get(filters, "selector") # Undefined THEN filters["selector"].v ELSE filters

\* the forEach of find: a value whose typeof is not 'object' becomes {$eq: value}
findNormalize(selector) ==
    [k \in DOMAIN selector |->
        IF TypeOf(selector[k]) # "object" THEN Obj("$eq" :> selector[k]) ELSE selector[k]]

\* the query object handed to db.find
findQuery(filters) ==
    [selector |-> findNormalize(findSelector(filters)),
     limit |-> Get(filters, "limit"), skip |-> Get(filters, "skip"),
     sort |-> Get(filters, "sort"), fields |-> Get(filters, "fields")]

\* find(filters)
findOp(docs, filters, f) ==
    LET q == findQuery(filters)
        r == IF f[1] THEN Err(Transport) ELSE DrvFind(docs, q)
        calls == <<Call("find", <<q>>, r)>>
    IN  IF r.ok THEN Settled("resolved", r.val.v.docs, docs, calls)
        ELSE Settled("rejected", r.val, docs, calls)

\* docs => docs[0]: undefined, not null, when nothing matched
findOneThen_NoNull(found) == IF Len(found.v) # 0 THEN found.v[1] ELSE Undefined

\* docs => docs.length ? docs[0] : null
findOneThen(found) == IF Len(found.v) # 0 THEN found.v[1] ELSE Null

\* Object.assign({}, {selector: query, limit: 1})
findOneFilters(query) == Assign(EmptyObj, [selector |-> Obj(query), limit |-> Num(1)])

\* findOne(query)
findOneOp(docs, query, f) ==
    LET o == findOp(docs, findOneFilters(query), f)
    IN  IF o.status = "resolved" THEN [o EXCEPT !.value = findOneThen(o.value)] ELSE o

\* findById(_id)
findByIdOp(docs, _id, f) ==
    LET r == IF f[1] THEN Err(Transport) ELSE DrvGet(docs, _id)
    IN  Settled(IF r.ok THEN "resolved" ELSE "rejected", r.val, docs,
                <<Call("get", <<_id>>, r)>>)

\* findByIds(idList)
findByIdsOp(docs, idList, f) ==
    LET keys == Obj([keys |-> idList])
        r == IF f[1] THEN Err(Transport) ELSE DrvFetch(docs, idList)
    IN  Settled(IF r.ok THEN "resolved" ELSE "rejected", r.val, docs,
                <<Call("fetch", <<keys>>, r)>>)

\* count(filters)
countOp(docs, filters, f) ==
    LET o == findOp(docs, filters, f)
    IN  IF o.status = "resolved" THEN [o EXCEPT !.value = Num(Len(o.value.v))] ELSE o

\* an insert that resolves to the driver's acknowledgement, without reading back
insertOp_NoReadBack(docs, entity, fresh, f) ==
    LET w == IF f[1] THEN Lost(docs) ELSE DrvInsert(docs, entity, fresh)
    IN  Settled(IF w.ok THEN "resolved" ELSE "rejected", w.val, w.docs,
                <<Call("insert", <<Obj(entity)>>, w)>>)

\* insert(entity)
insertOp(docs, entity, fresh, f) ==
    LET w == IF f[1] THEN Lost(docs) ELSE DrvInsert(docs, entity, fresh)
        first == <<Call("insert", <<Obj(entity)>>, w)>>
    IN  IF ~w.ok THEN Settled("rejected", w.val, docs, first)
        ELSE LET g == findByIdOp(w.docs, w.val.v.id, Tail(f))
             IN  [g EXCEPT !.calls = first \o @]

\* insertMany(entities)
insertManyOp(docs, entities, fresh, f) ==
    LET w == IF f[1] THEN Lost(docs) ELSE DrvBulk(docs, entities, fresh)
    IN  Settled(IF w.ok THEN "resolved" ELSE "rejected", w.val, w.docs,
                <<Call("bulk", <<Arr(entities)>>, w)>>)

\* updateMany(query, update): `entities` names nothing in scope
updateManyOp(docs, query, update) == Settled("thrown", ReferenceError, docs, << >>)

\* updateById(_id, update)
updateByIdOp(docs, _id, update, f) ==
    LET g == findByIdOp(docs, _id, f)
    IN  IF g.status # "resolved" THEN g
        ELSE LET mergedDoc == Assign(g.value.v, update)
                 w == IF f[2] THEN Lost(docs) ELSE DrvInsert(docs, mergedDoc, "")
             IN  Settled(IF w.ok THEN "resolved" ELSE "rejected", w.val, w.docs,
                         g.calls \o <<Call("insert", <<Obj(mergedDoc)>>, w)>>)

\* removeMany(query): this.collection is a property the class never assigns
removeManyOp(docs, query) == Settled("thrown", TypeError, docs, << >>)

\* removeById(_id): the fetched document is the only argument of destroy
removeByIdOp(docs, _id, f) ==
    LET g == findByIdOp(docs, _id, f)
    IN  IF g.status # "resolved" THEN g
        ELSE LET w == IF f[2] THEN Lost(docs) ELSE DrvDestroy(docs, g.value, Undefined)
             IN  Settled(IF w.ok THEN "resolved" ELSE "rejected", w.val, w.docs,
                         g.calls \o <<Call("destroy", <<g.value>>, w)>>)

\* clear(): removeMany({}) throws before .then is reached
clearOp(docs) == removeManyOp(docs, EmptyObj)

(* ------------------------------------------------------------------ *)
(* Arguments the operations are called with                            *)
(* ------------------------------------------------------------------ *)
FieldValues == {Num(5), Num(10)}

Entities ==
    {("a" :> x) : x \in FieldValues}
        \cup {("_id" :> Str(i)) @@ ("a" :> x) : i \in Ids, x \in FieldValues}

\* documents of a bulk write: one the server names, one that names itself
BulkEntities == {("a" :> Num(5)), ("_id" :> Str(IdSeq[1])) @@ ("a" :> Num(10))}

EntityLists ==
    UNION {[1..n -> {Obj(e) : e \in BulkEntities}] : n \in 0..MaxBulk}

\* a patch that overwrites one field and adds another, and one that only adds
Patches == {("a" :> Num(10)) @@ ("c" :> Num(100)), ("c" :> Num(100))}

Selectors ==
    { EmptyObj,
      ("a" :> Num(5)),
      ("a" :> Obj("$gt" :> Num(5))),
      ("a" :> Null),
      ("a" :> Arr(<<Num(5)>>)),
      ("_id" :> Str(IdSeq[1])) }

FilterBundles ==
    Selectors
        \cup {[selector |-> Obj(q), limit |-> Num(1)] : q \in Selectors}
        \cup {[selector |-> Obj(EmptyObj), skip |-> Num(1)]}
        \cup {("a" :> Num(5)) @@ ("limit" :> Num(1))}

IdArgs == {Str(i) : i \in Ids}

IdLists == {Arr(<< >>), Arr(<<Str(IdSeq[1])>>), Arr(<<Str(IdSeq[2]), Str(IdSeq[1])>>)}

\* which driver call of an operation fails in transport: none, or one of them
Failures1 == {<<FALSE>>, <<TRUE>>}
Failures2 == {<<FALSE, FALSE>>, <<TRUE, FALSE>>, <<FALSE, TRUE>>}

\* identifiers the server may assign to n new documents
FreshSeqs(docs, n) ==
    {q \in [1..n -> Ids \ DOMAIN docs] : \A i, j \in 1..n : q[i] = q[j] => i = j}

NeedsId(list) == Cardinality({i \in DOMAIN list : "_id" \notin DOMAIN list[i].v})

(* ------------------------------------------------------------------ *)
(* The document operations as steps of the adapter                     *)
(* ------------------------------------------------------------------ *)
\* the operation settles as o
Run(op, args, o) ==
    /\ server' = [server EXCEPT ![db.db] = o.docs]
    /\ ev' = [op |-> op, args |-> args, status |-> o.status, value |-> o.value,
              calls |-> o.calls, before |-> Docs]
    /\ UNCHANGED <<uri, opts, db, service, conns>>

\* the operation throws error before it made any driver call
Throw(op, args, error) ==
    /\ ev' = [op |-> op, args |-> args, status |-> "thrown", value |-> error,
              calls |-> << >>, before |-> << >>]
    /\ UNCHANGED <<uri, opts, db, service, server, conns>>

find(filters, f) ==
    IF db = Null THEN Throw("find", <<filters>>, TypeError)
    ELSE Run("find", <<filters>>, findOp(Docs, filters, f))

findOne(query, f) ==
    IF db = Null THEN Throw("findOne", <<query>>, TypeError)
    ELSE Run("findOne", <<query>>, findOneOp(Docs, query, f))

findById(_id, f) ==
    IF db = Null THEN Throw("findById", <<_id>>, TypeError)
    ELSE Run("findById", <<_id>>, findByIdOp(Docs, _id, f))

findByIds(idList, f) ==
    IF db = Null THEN Throw("findByIds", <<idList>>, TypeError)
    ELSE Run("findByIds", <<idList>>, findByIdsOp(Docs, idList, f))

count(filters, f) ==
    IF db = Null THEN Throw("count", <<filters>>, TypeError)
    ELSE Run("count", <<filters>>, countOp(Docs, filters, f))

insert(entity, f) ==
    IF db = Null THEN Throw("insert", <<entity>>, TypeError)
    ELSE \E fresh \in (IF "_id" \in DOMAIN entity THEN {""} ELSE Ids \ DOMAIN Docs) :
            Run("insert", <<entity>>, insertOp(Docs, entity, fresh, f))

insertMany(entities, f) ==
    IF db = Null THEN Throw("insertMany", <<entities>>, TypeError)
    ELSE \E fresh \in FreshSeqs(Docs, NeedsId(entities)) :
            Run("insertMany", <<entities>>, insertManyOp(Docs, entities, fresh, f))

updateMany(query, update) ==
    IF db = Null THEN Throw("updateMany", <<query, update>>, TypeError)
    ELSE Run("updateMany", <<query, update>>, updateManyOp(Docs, query, update))

updateById(_id, update, f) ==
    IF db = Null THEN Throw("updateById", <<_id, update>>, TypeError)
    ELSE /\ _id.v \in DOMAIN Docs => Docs[_id.v]["_rev"].rev < MaxRev
         /\ Run("updateById", <<_id, update>>, updateByIdOp(Docs, _id, update, f))

removeMany(query) ==
    IF db = Null THEN Throw("removeMany", <<query>>, TypeError)
    ELSE Run("removeMany", <<query>>, removeManyOp(Docs, query))

removeById(_id, f) ==
    IF db = Null THEN Throw("removeById", <<_id>>, TypeError)
    ELSE Run("removeById", <<_id>>, removeByIdOp(Docs, _id, f))

clear ==
    IF db = Null THEN Throw("clear", << >>, TypeError)
    ELSE Run("clear", << >>, clearOp(Docs))

Data ==
    \/ \E filters \in FilterBundles, f \in Failures1 : find(filters, f)
    \/ \E query \in Selectors, f \in Failures1 : findOne(query, f)
    \/ \E _id \in IdArgs, f \in Failures1 : findById(_id, f)
    \/ \E idList \in IdLists, f \in Failures1 : findByIds(idList, f)
    \/ \E filters \in Selectors, f \in Failures1 : count(filters, f)
    \/ \E entity \in Entities, f \in Failures2 : insert(entity, f)
    \/ \E entities \in EntityLists, f \in Failures1 : insertMany(entities, f)
    \/ \E query \in Selectors, update \in Patches : updateMany(query, update)
    \/ \E _id \in IdArgs, update \in Patches, f \in Failures2 : updateById(_id, update, f)
    \/ \E query \in Selectors : removeMany(query)
    \/ \E _id \in IdArgs, f \in Failures2 : removeById(_id, f)
    \/ clear

\* the adapter as test and service use it for documents: constructed without a
\* URI, initialised with a collection, connected to a server that had to create it
ConnectedConn ==
    LET schema == [name |-> Text(<<"store">>), collection |-> Text(<<"posts">>)]
        name == Text(<<"store", "-", "posts">>)
    IN  [pc |-> "create", opts |-> [url |-> DefaultUrl], dbName |-> name,
         schema |-> schema, uri |-> Text(<< >>),
         calls |-> <<[call |-> "db.get", name |-> name],
                     [call |-> "db.create", name |-> name]>>]

Connected ==
    /\ uri = Text(<< >>)
    /\ opts = Undefined
    /\ service = [schema |-> ConnectedConn.schema]
    /\ server = (ConnectedConn.dbName :> << >>)
    /\ db = Use(ConnectedConn.dbName)
    /\ conns = << >>
    /\ ev = [op |-> "connect", status |-> "resolved",
             lookup |-> Err(HttpError(404)), conn |-> ConnectedConn, prev |-> "connect"]

(* ------------------------------------------------------------------ *)
(* ID field translation: two functions without I/O                     *)
(* ------------------------------------------------------------------ *)
\* delete o[k]
Delete(o, k) == [j \in (DOMAIN o) \ {k} |-> o[j]]

\* o[k] = x
Put(o, k, x) == [j \in (DOMAIN o) \cup {k} |-> IF j = k THEN x ELSE o[j]]

\* beforeSaveTransformID(entity, idField); _.cloneDeep gives an equal copy, so
\* the caller's entity is left as it was
beforeSaveTransformID(entity, idField) ==
    LET newEntity == entity IN
    IF idField # "_id" /\ Get(newEntity, idField) # Undefined
      THEN Delete(Put(newEntity, "_id", newEntity[idField]), idField)
      ELSE newEntity

\* an afterRetrieveTransformID that copies _id but does not delete it
afterRetrieveTransformID_KeepId(entity, idField) ==
    IF idField # "_id" THEN Put(entity, idField, Get(entity, "_id")) ELSE entity

\* afterRetrieveTransformID(entity, idField)
afterRetrieveTransformID(entity, idField) ==
    IF idField # "_id"
      THEN Delete(Put(entity, idField, Get(entity, "_id")), "_id")
      ELSE entity

\* documents and identifier field names the translation is called with
TransformValues == {Str("123456789"), Null}
TransformFields == {"_id", "myID", "title"}
TransformDocs == UNION {[fs -> TransformValues] : fs \in SUBSET TransformFields}
IdFields == {"_id", "myID", "title"}

\* a call of beforeSaveTransformID
BeforeSave(entity, idField) ==
    /\ ev' = [op |-> "beforeSaveTransformID", args |-> <<entity, idField>>,
              status |-> "returned", value |-> beforeSaveTransformID(entity, idField)]
    /\ UNCHANGED <<uri, opts, db, service, server, conns>>

\* a call of afterRetrieveTransformID; `saved` holds the document whose
\* beforeSaveTransformID result, just returned, is the entity of this call
AfterRetrieve(entity, idField) ==
    /\ ev' = [op |-> "afterRetrieveTransformID", args |-> <<entity, idField>>,
              status |-> "returned", value |-> afterRetrieveTransformID(entity, idField),
              saved |-> IF /\ ev.op = "beforeSaveTransformID"
                           /\ ev.value = entity /\ ev.args[2] = idField
                          THEN <<ev.args[1]>> ELSE << >>]
    /\ UNCHANGED <<uri, opts, db, service, server, conns>>

Transform ==
    \/ \E entity \in TransformDocs, idField \in IdFields : BeforeSave(entity, idField)
    \/ \E entity \in TransformDocs, idField \in IdFields : AfterRetrieve(entity, idField)

Next == Lifecycle \/ Data \/ Transform

\* the whole adapter.  Its state space is the product of the parts below, which
\* share only the handle; the properties are stated on each part.
Spec == Init /\ [][Next]_vars

\* construction, init, connect and disconnect alone
SpecLifecycle == Init /\ [][Lifecycle]_vars

\* the document operations of a connected adapter
SpecData == Connected /\ [][Data]_vars

\* the ID field translation of a constructed adapter
SpecTransform == Init /\ [][Transform]_vars

(* ------------------------------------------------------------------ *)
(* Properties: connection lifecycle (checked under SpecLifecycle)      *)
(* ------------------------------------------------------------------ *)
\* the collection name "<name>-<collection>" of a schema
NameOf(schema) == Text(schema.name.toks \o <<"-">> \o schema.collection.toks)

ConnectEvent == ev.op = "connect" /\ ev.status # "thrown"

\* C1: connect() on an initialised adapter looks up "<name>-<collection>"; a
\* lookup that fails with 404 is followed by a create request for that name, a
\* lookup that succeeds by no create request and no failure; when the promise
\* resolves, db is the (non-null) handle of that collection.
C1_ConnectOpensOrCreates ==
    (ConnectEvent /\ Truthy(ev.conn.schema.collection)) =>
        LET get == [call |-> "db.get", name |-> NameOf(ev.conn.schema)]
            create == [call |-> "db.create", name |-> NameOf(ev.conn.schema)]
        IN  /\ ev.status = "called" => ev.conn.calls = <<get>>
            /\ (ev.status # "called" /\ ev.lookup = Err(HttpError(404)))
                    => ev.conn.calls = <<get, create>>
            /\ (ev.status # "called" /\ ev.lookup.ok)
                    => ev.conn.calls = <<get>> /\ ev.status = "resolved"
            /\ ev.status = "resolved"
                    => db # Null /\ db = Use(NameOf(ev.conn.schema))

\* C1 witness: a connect resolved on a collection that already existed
C1_Witness ==
    /\ ConnectEvent /\ ev.status = "resolved" /\ ev.lookup.ok
    /\ Truthy(ev.conn.schema.collection)
    /\ db = Use(NameOf(ev.conn.schema))

C3_DisconnectIdempotent ==
    [][ev'.op = "disconnect" =>
          /\ ev'.status = "resolved"
          /\ db' = Null
          /\ ev.op = "disconnect" =>
                <<uri, opts, db, service, server, conns>>'
                    = <<uri, opts, db, service, server, conns>>]_vars

\* C3 witness: disconnect was called with the handle already null
C3_Witness == ev.op = "disconnect" /\ ev.before = Null /\ db = Null

(* ------------------------------------------------------------------ *)
(* Properties: document operations (checked under SpecData)            *)
(* ------------------------------------------------------------------ *)
\* the step just taken was operation op, past the null check of the handle
Did(op) == ev.op = op /\ ~(ev.status = "thrown" /\ ev.value = TypeError)

\* x is a stored document: it carries an identifier and a revision marker
IsStoredDoc(x) == x.kind = "object" /\ {"_id", "_rev"} \subseteq DOMAIN x.v

\* x is a write acknowledgement {ok, id, rev} of the driver
IsAck(x) == x.kind = "object" /\ DOMAIN x.v = {"ok", "id", "rev"}

\* stored document x carries every field of the input document d
Carries(x, d) == \A k \in DOMAIN d : k \in DOMAIN x.v /\ x.v[k] = d[k]

CallsNamed(name) == {i \in DOMAIN ev.calls : ev.calls[i].call = name}

\* C4: insert(D) sends D to the driver once; when that succeeds it reads the
\* document back by the identifier the driver reported and resolves to the
\* read-back document (with identifier and revision), not to D and not to the
\* acknowledgement; a D with an _id comes back with the same _id.
C4_InsertReadsBack ==
    Did("insert") =>
        LET D == ev.args[1] IN
        /\ CallsNamed("insert") = {1}
        /\ ev.calls[1].args = <<Obj(D)>>
        /\ ev.calls[1].result.ok =>
              /\ Len(ev.calls) = 2
              /\ ev.calls[2].call = "get"
              /\ ev.calls[2].args = <<ev.calls[1].result.val.v["id"]>>
        /\ ev.status = "resolved" =>
              /\ ev.value = ev.calls[2].result.val
              /\ IsStoredDoc(ev.value)
              /\ ev.value = Obj(Docs[ev.value.v["_id"].v])
              /\ Carries(ev.value, D)
              /\ ev.value # Obj(D)
              /\ ev.value # ev.calls[1].result.val

\* C4 witness: an insert of a document with its own _id resolved
C4_Witness ==
    /\ Did("insert") /\ ev.status = "resolved"
    /\ "_id" \in DOMAIN ev.args[1]
    /\ ev.value.v["_id"] = ev.args[1]["_id"]

\* C5: insertMany(docs) makes one bulk write and resolves to one stored document
\* per input document, in input order, each carrying the input's fields and
\* retrievable by findById.
C5_InsertManyStoredDocs ==
    (Did("insertMany") /\ ev.status = "resolved") =>
        /\ CallsNamed("bulk") = {1} /\ Len(ev.calls) = 1
        /\ Len(ev.value.v) = Len(ev.args[1])
        /\ (\A i \in DOMAIN ev.value.v : "error" \notin DOMAIN ev.value.v[i].v) =>
              \A i \in DOMAIN ev.value.v :
                  /\ IsStoredDoc(ev.value.v[i])
                  /\ Carries(ev.value.v[i], ev.args[1][i].v)
                  /\ DrvGet(Docs, ev.value.v[i].v["_id"]).ok

\* the selector a find-like call was given
GivenSelector ==
    IF ev.op = "findOne" THEN ev.args[1]
    ELSE IF "selector" \in DOMAIN ev.args[1] THEN ev.args[1]["selector"].v
    ELSE ev.args[1]

\* x is a comparison object such as {$eq: 5}
IsComparison(x) == x.kind = "object"

\* C6: the selector handed to the driver has every top-level value in comparison
\* form: values that are not comparison objects (null and arrays included) are
\* wrapped as {$eq: value}, comparison objects pass unchanged.
C6_SelectorNormalized ==
    ((Did("find") \/ Did("findOne") \/ Did("count")) /\ Len(ev.calls) = 1) =>
        LET sent == ev.calls[1].args[1].selector IN
        /\ DOMAIN sent = DOMAIN GivenSelector
        /\ \A k \in DOMAIN sent :
              /\ IsComparison(sent[k])
              /\ sent[k] = IF IsComparison(GivenSelector[k]) THEN GivenSelector[k]
                           ELSE Obj("$eq" :> GivenSelector[k])

\* C7: findOne(query) issues one driver query, the one find makes for
\* {selector: query, limit: 1}; it resolves to the first returned document when a
\* document matches and to null when none does, and rejects only when the
\* driver call failed.
C7_FindOneFirstOrNull ==
    Did("findOne") =>
        LET query == ev.args[1]
            matching == MatchFrom(ev.before, ev.calls[1].args[1].selector, 1)
        IN
        /\ Len(ev.calls) = 1 /\ ev.calls[1].call = "find"
        /\ ev.calls[1].args = <<findQuery([selector |-> Obj(query), limit |-> Num(1)])>>
        /\ ev.calls[1].args[1].limit = Num(1)
        /\ ev.status = IF ev.calls[1].result.ok THEN "resolved" ELSE "rejected"
        /\ ev.status = "resolved" =>
              /\ matching # << >> => ev.value = matching[1]
              /\ matching = << >> => ev.value = Null
              /\ ev.value # Null => ev.value = ev.calls[1].result.val.v["docs"].v[1]

\* C7 witness: findOne resolved to null, nothing matching
C7_Witness ==
    /\ Did("findOne") /\ ev.status = "resolved" /\ ev.value = Null
    /\ ev.before # << >>

\* C8: updateById(id, patch) on an existing document writes back the patch merged
\* over the current document and resolves to the freshly stored document, not to
\* the driver's write acknowledgement.
C8_UpdateByIdReturnsStored ==
    (Did("updateById") /\ ev.args[1].v \in DOMAIN ev.before /\ ev.status = "resolved") =>
        LET id == ev.args[1].v IN
        /\ ev.calls[2].args = <<Obj(Assign(ev.before[id], ev.args[2]))>>
        /\ Carries(Obj(Docs[id]), ev.args[2])
        /\ ev.value = Obj(Docs[id])
        /\ ~IsAck(ev.value)

\* C9: updateMany(filters, patch) resolves to the number of documents submitted
\* in one bulk write of the matching documents with the patch merged in, and
\* afterwards every document that matched carries the patch's fields.
C9_UpdateManyPatchesMatches ==
    Did("updateMany") =>
        LET matched == {i \in DOMAIN ev.before : Matches(ev.before[i], findNormalize(ev.args[1]))}
        IN
        /\ ev.status = "resolved"
        /\ ev.value.kind = "number" /\ ev.value.v >= Cardinality(matched)
        /\ \A i \in matched : Carries(Obj(Docs[i]), ev.args[2])

\* C10: removeById(id) on an existing document issues a delete addressed by the
\* identifier and tagged with the revision just fetched, and resolves to the
\* pre-deletion document; afterwards findById(id) fails with not-found.
C10_RemoveByIdDeletes ==
    (Did("removeById") /\ ev.args[1].v \in DOMAIN ev.before
        /\ \A i \in DOMAIN ev.calls : ev.calls[i].result.val # Transport) =>
        LET id == ev.args[1].v IN
        /\ Len(ev.calls) = 2 /\ ev.calls[2].call = "destroy"
        /\ ev.calls[2].args = <<Str(id), ev.before[id]["_rev"]>>
        /\ ev.status = "resolved"
        /\ ev.value = Obj(ev.before[id])
        /\ DrvGet(Docs, Str(id)) = Err(HttpError(404))

\* C11: clear() behaves as removeMany({}): on a connected adapter it finds every
\* stored document, marks them deleted in one bulk write and resolves to the
\* number removed, the number removeMany({}) gives; a find({}) issued afterwards
\* returns the empty sequence.
C11_ClearRemovesAll ==
    (ev.op = "clear" /\ db # Null) =>
        LET same == removeManyOp(ev.before, EmptyObj) IN
        /\ ev.status = "resolved"
        /\ ev.value.kind = "number"
        /\ ev.value = same.value
        /\ CallsNamed("bulk") # {}
        /\ findOp(Docs, EmptyObj, <<FALSE>>).value = Arr(<< >>)

(* ------------------------------------------------------------------ *)
(* Properties: ID field translation (checked under SpecTransform)      *)
(* ------------------------------------------------------------------ *)
\* afterRetrieveTransformID was just applied to beforeSaveTransformID(D, idField)
RoundTrip ==
    /\ ev.op = "afterRetrieveTransformID" /\ ev.saved # << >>
    /\ ev.args[2] # "_id"

\* C12 as stated: for every document D and every idField other than "_id",
\* afterRetrieveTransformID(beforeSaveTransformID(D, idField), idField) equals D,
\* also for a D without an idField value and for a D that has an _id.
C12_RoundTripAll == RoundTrip => ev.value = ev.saved[1]

\* C12 amended: the round trip gives back D when D has an idField value and no
\* _id field.
C12_RoundTripWithIdField ==
    (RoundTrip /\ Get(ev.saved[1], ev.args[2]) # Undefined /\ "_id" \notin DOMAIN ev.saved[1])
        => ev.value = ev.saved[1]

\* C12 witness: a document with myID and title went through both functions
C12_Witness ==
    /\ RoundTrip /\ ev.args[2] = "myID"
    /\ DOMAIN ev.saved[1] = {"myID", "title"}
    /\ "_id" \in DOMAIN ev.args[1]
    /\ ev.value = ev.saved[1]

(* ------------------------------------------------------------------ *)
(* Properties: errors and query options (checked under SpecData)       *)
(* ------------------------------------------------------------------ *)
DataOps ==
    {"find", "findOne", "findById", "findByIds", "count", "insert", "insertMany",
     "updateMany", "updateById", "removeMany", "removeById", "clear"}

\* C13: the adapter raises no error of its own after init: an operation on a
\* connected adapter fails only when one of its driver calls failed, it fails
\* with that call's error unchanged, and the failed call is not followed by
\* another call (no retry).
C13_OnlyDriverErrors ==
    (ev.op \in DataOps /\ db # Null /\ ev.status \in {"thrown", "rejected"}) =>
        /\ ev.calls # << >>
        /\ Failed(ev.calls[Len(ev.calls)].result)
        /\ ev.value = ev.calls[Len(ev.calls)].result.val
        /\ \A i \in 1..(Len(ev.calls) - 1) : ~Failed(ev.calls[i].result)

\* find(filters) or count(filters) reached the driver
FindCall == ev.op \in {"find", "count"} /\ db # Null /\ ev.calls # << >>

QueryOptions == {"limit", "skip", "sort", "fields"}

\* C14: in every find(filters), limit, skip, sort and fields reach the driver
\* as query options only and never as keys of the selector, whether filters has
\* a selector entry or not.
C14_OptionsNotInSelector ==
    FindCall =>
        LET filters == ev.args[1]
            q == ev.calls[1].args[1]
        IN  /\ QueryOptions \cap DOMAIN q.selector = {}
            /\ \A k \in QueryOptions : q[k] = Get(filters, k)

(* ------------------------------------------------------------------ *)
(* Properties: connect and disconnect interleaved (SpecLifecycle)      *)
(* ------------------------------------------------------------------ *)
\* C15: disconnect() resolves at once with the handle cleared and cancels no
\* pending connect(); a connect() that was pending across a disconnect() still
\* stores its handle when it resolves, so the handle is non-null although the
\* last operation called was disconnect; the adapter holds no handle or exactly
\* one, never several.
C15_ConnectOutlivesDisconnect ==
    /\ (db = Null \/ db = Use(db.db))
    /\ ev.op = "disconnect" => db = Null
    /\ (ev.op = "connect" /\ ev.status = "resolved" /\ ev.prev = "disconnect")
            => db # Null /\ db = Use(ev.conn.dbName)

\* C15 witness: disconnect acted while the connect was pending, then the
\* connect resolved and stored the handle
C15_Witness ==
    /\ ev.op = "connect" /\ ev.status = "resolved" /\ ev.prev = "disconnect"
    /\ conns = << >>
    /\ db = Use(ev.conn.dbName)

====
